---- MODULE Spec2Model ----
(***************************************************************************)
(* PSWAP partial-fill example pages (lumina-web-example).                  *)
(*                                                                         *)
(* Part 1 models the PSWAP note script (lib/masm/pswap-private.ts) as the  *)
(* Miden VM executes it: one operator per procedure, stack comparisons     *)
(* kept in stack order.  Part 2 models what the pages build (tags, note   *)
(* inputs, notes), Part 3 the React page flows that drive the SDK.         *)
(* Amounts stay far below 2^31, so the u64 wrapping of u64::wrapping_mul   *)
(* and the field modulus never apply inside the bounds.                    *)
(***************************************************************************)
EXTENDS Integers, Sequences, FiniteSets, TLC

VARIABLES
    vault,      \* account name -> faucet id -> amount held in the account's vault
    notes,      \* the notes created on chain, in creation order
    block,      \* current block number of the chain
    last,       \* what the last executed note-consuming transaction did
    page,       \* the page component that is mounted
    pc,         \* position of the running flow ("idle": no flow is running)
    state,      \* the component's React state (TestState)
    loc,        \* local constants of the running flow
    run         \* bookkeeping of the current run (which flow, what failed)

chainVars == <<vault, notes, block, last>>
pageVars == <<page, pc, state, loc, run>>
vars == <<vault, notes, block, last, page, pc, state, loc, run>>

-----------------------------------------------------------------------------
(* Bounds of the model *)

MaxAmount == 4      \* largest offered / requested amount drawn for a note
MaxBlock == 3       \* largest block number and expiration block explored
MaxInputs == 17     \* largest number of note inputs handed to the script

-----------------------------------------------------------------------------
(* Program constants *)

FACTOR == 100000
EXECUTION_HINT_ALWAYS == 1
REQUESTED_ASSET_WORD_INPUT == 0
SWAPP_TAG_INPUT == 4
P2ID_TAG_INPUT == 5
SWAPP_COUNT_INPUT == 8
EXPIRATION_BLOCK_INPUT == 9
SWAPP_CREATOR_PREFIX_INPUT == 12
SWAPP_CREATOR_SUFFIX_INPUT == 13
NOTE_TYPE_OUTPUT_INPUT == 14
NOTE_TYPE_PRIVATE == 0
NOTE_TYPE_PUBLIC == 1

ERR_SWAP_WRONG_NUMBER_OF_INPUTS == "PSWAP wrong number of inputs"
ERR_SWAP_WRONG_NUMBER_OF_ASSETS == "PSWAP wrong number of assets"
ERR_INVALID_SWAP_AMOUNT_ZERO == "PSWAP zero SWAP amount"
ERR_PSWAP_EXPIRED == "PSWAP note has expired"
ERR_DIV_BY_ZERO == "u64::div division by zero"
ERR_VAULT == "wallet::move_asset_to_note: asset not in vault"
ERR_ASSETS_NOT_PRESERVED == "transaction kernel: assets not preserved"
ERR_NOT_TARGET == "P2ID: consumer is not the target account"
NO_ERR == "none"

-----------------------------------------------------------------------------
(* Identifiers.  A 64-bit id prefix is kept as its top byte (bits 56..63)   *)
(* and the remaining 56 bits; the suffix is a small number.                 *)

Prefix(top, low) == [top |-> top, low |-> low]
Id(top, low, suffix) == [prefix |-> Prefix(top, low), suffix |-> suffix]

Accounts == {"maker", "taker", "other"}

\* "other" shares the maker's prefix and differs in the suffix only.
AccountIdOf ==
    [maker |-> Id(16, 7, 1), taker |-> Id(17, 9, 2), other |-> Id(16, 7, 3)]

FaucetIdPool == {Id(32, 1, 5), Id(32, 2, 6), Id(255, 1, 7), Id(3, 300, 8)}

EmptyVault == [f \in FaucetIdPool |-> 0]

-----------------------------------------------------------------------------
(* Part 1: the PSWAP note script                                            *)

\* Miden comparison instructions: the stack is [top, second, ...] and the
\* result is "second OP top".
lt(top, second) == second < top
gt(top, second) == second > top
gte(top, second) == second >= top

\* Memory address k after active_note::get_inputs wrote the inputs at 0:
\* untouched memory reads as zero.
Slot(inputs, k) == IF k + 1 <= Len(inputs) THEN inputs[k + 1] ELSE 0

\* proc.is_expired
is_expired(inputs, currentBlock) ==
    LET expiration_block == Slot(inputs, EXPIRATION_BLOCK_INPUT)
    IN  IF expiration_block = 0
        THEN FALSE
        ELSE gte(currentBlock, expiration_block)

\* u64::div traps on a zero divisor.
calculate_traps(tokens_a, tokens_b, tokens_b_in) ==
    IF gt(tokens_a, tokens_b)
    THEN tokens_a = 0 \/ (tokens_b * FACTOR) \div tokens_a = 0
    ELSE tokens_b = 0


\* proc.calculate_tokens_a_for_b  (inputs [tokens_a, tokens_b, tokens_b_in])
\* (variant: the whole offer, whatever the fill amount)
CalcWholeOffer(tokens_a, tokens_b, tokens_b_in) == tokens_a
calculate_tokens_a_for_b(tokens_a, tokens_b, tokens_b_in) ==
    IF gt(tokens_a, tokens_b)
    THEN LET ratio == (tokens_b * FACTOR) \div tokens_a
         IN  (tokens_b_in * FACTOR) \div ratio
    ELSE LET ratio == (tokens_a * FACTOR) \div tokens_b
         IN  (ratio * tokens_b_in) \div FACTOR

\* proc.is_consumer_is_creator
is_consumer_is_creator(inputs, consumerId) ==
    IF consumerId.prefix = Slot(inputs, SWAPP_CREATOR_PREFIX_INPUT)
    THEN consumerId.suffix = Slot(inputs, SWAPP_CREATOR_SUFFIX_INPUT)
    ELSE FALSE

\* proc.increment_swap_count
\* (variant: the count is stored back unchanged)
KeepSwapCount(mem) == mem
increment_swap_count(mem) ==
    [mem EXCEPT ![SWAPP_COUNT_INPUT + 1] = @ + 1]

\* proc.get_new_swap_serial_num: get_serial_number, push.1 add (top element)
get_new_swap_serial_num(serial) == [serial EXCEPT ![4] = @ + 1]

\* proc.get_p2id_serial_num: hmerge of the serial number and the word at
\* address 8 (swap count, expiration block, 0, 0)
get_p2id_serial_num(serial, mem) ==
    <<"hmerge", serial,
      <<Slot(mem, 8), Slot(mem, 9), Slot(mem, 10), Slot(mem, 11)>>>>

\* Number of inputs the script insists on: 15 in pswap-private.ts; the
\* original pswap.ts takes 14.
NumInputs(script) == IF script = "pswap-private" THEN 15 ELSE 14

\* Note type of the notes the script creates: input 14 in pswap-private.ts,
\* the constant PUBLIC_NOTE in the original pswap.ts.
\* (variant: the constant PUBLIC_NOTE in either script)
OutputNoteTypePublic(script, mem) == NOTE_TYPE_PUBLIC
OutputNoteType(script, mem) ==
    IF script = "pswap-private"
    THEN Slot(mem, NOTE_TYPE_OUTPUT_INPUT)
    ELSE NOTE_TYPE_PUBLIC

Asset(faucet, amount) == [faucet |-> faucet, amount |-> amount]

Credit(v, faucet, amount) == [v EXCEPT ![faucet] = @ + amount]
Debit(v, faucet, amount) == [v EXCEPT ![faucet] = @ - amount]

Failure(err, v) ==
    [ok |-> FALSE, err |-> err, path |-> "fail", vault |-> v, outputs |-> <<>>,
     b_in |-> 0, a_out |-> 0, partial |-> FALSE]

\* proc.handle_reclaim: the note's first asset goes to the consuming account
handle_reclaim(note, v) ==
    [ok |-> TRUE, err |-> NO_ERR, path |-> "reclaim",
     vault |-> Credit(v, note.assets[1].faucet, note.assets[1].amount),
     outputs |-> <<>>, b_in |-> 0, a_out |-> 0, partial |-> FALSE]

\* The requested-asset word [amount, 0, suffix, prefix] written back at
\* address 0 for the leftover note (mem_storew_be.REQUESTED_ASSET_WORD_INPUT).
\* (variant: the requested amount is written back unreduced)
RemainingKeepFill(mem, tokens_b, tokens_b_in, tokenB) ==
    [k \in 1..Len(mem) |->
        IF k = 1 THEN tokens_b
        ELSE IF k = 2 THEN 0
        ELSE IF k = 3 THEN tokenB.suffix
        ELSE IF k = 4 THEN tokenB.prefix
        ELSE mem[k]]
StoreRequestedRemaining(mem, tokens_b, tokens_b_in, tokenB) ==
    [k \in 1..Len(mem) |->
        IF k = 1 THEN tokens_b - tokens_b_in
        ELSE IF k = 2 THEN 0
        ELSE IF k = 3 THEN tokenB.suffix
        ELSE IF k = 4 THEN tokenB.prefix
        ELSE mem[k]]

\* The P2ID note to the creator (first output_note::create of execute_SWAPp).
P2idOutput(script, note, mem, tokenB, tokens_b_in) ==
    [kind     |-> "P2ID",
     script   |-> "p2id",
     assets   |-> <<Asset(tokenB, tokens_b_in)>>,
     inputs   |-> <<Slot(mem, SWAPP_CREATOR_SUFFIX_INPUT),
                    Slot(mem, SWAPP_CREATOR_PREFIX_INPUT)>>,
     serial   |-> get_p2id_serial_num(note.serial, mem),
     tag      |-> Slot(mem, P2ID_TAG_INPUT),
     noteType |-> OutputNoteType(script, mem),
     hint     |-> EXECUTION_HINT_ALWAYS,
     aux      |-> 0]

\* The leftover PSWAP note (second output_note::create of execute_SWAPp).
LeftoverOutput(script, note, mem, tokenA, tokens_a, tokens_a_out) ==
    [kind     |-> "PSWAP",
     script   |-> note.script,
     assets   |-> <<Asset(tokenA, tokens_a - tokens_a_out)>>,
     inputs   |-> mem,
     serial   |-> get_new_swap_serial_num(note.serial),
     tag      |-> Slot(mem, SWAPP_TAG_INPUT),
     noteType |-> OutputNoteType(script, mem),
     hint     |-> EXECUTION_HINT_ALWAYS,
     aux      |-> 0]

\* The partial / complete decision of execute_SWAPp: "if amount_out < amount_a".
IsPartialFill(tokens_a, tokens_a_out) == lt(tokens_a, tokens_a_out)

\* proc.execute_SWAPp.  argFill is the element of the note args the script
\* stores at AMT_TOKENS_B_IN; v is the consuming account's vault.
execute_SWAPp(script, note, argFill, v) ==
    IF Len(note.assets) # 1
    THEN Failure(ERR_SWAP_WRONG_NUMBER_OF_ASSETS, v)
    ELSE IF Len(note.inputs) # NumInputs(script)
    THEN Failure(ERR_SWAP_WRONG_NUMBER_OF_INPUTS, v)
    ELSE
    LET tokenA   == note.assets[1].faucet
        tokens_a == note.assets[1].amount
        tokenB   == [prefix |-> Slot(note.inputs, 3), suffix |-> Slot(note.inputs, 2)]
        tokens_b == Slot(note.inputs, REQUESTED_ASSET_WORD_INPUT)
        tokens_b_in == IF argFill = 0 THEN v[tokenB] ELSE argFill
    IN
    IF argFill = 0 /\ tokens_b_in = 0
    THEN Failure(ERR_INVALID_SWAP_AMOUNT_ZERO, v)
    ELSE IF calculate_traps(tokens_a, tokens_b, tokens_b_in)
    THEN Failure(ERR_DIV_BY_ZERO, v)
    ELSE
    LET tokens_a_out == calculate_tokens_a_for_b(tokens_a, tokens_b, tokens_b_in)
        partial == IsPartialFill(tokens_a, tokens_a_out)
        mem1 == increment_swap_count(note.inputs)
        p2id == P2idOutput(script, note, mem1, tokenB, tokens_b_in)
        mem2 == StoreRequestedRemaining(mem1, tokens_b, tokens_b_in, tokenB)
        leftover == LeftoverOutput(script, note, mem2, tokenA, tokens_a, tokens_a_out)
    IN
    IF v[tokenB] < tokens_b_in
    THEN Failure(ERR_VAULT, v)
    ELSE IF ~partial /\ tokens_a_out # tokens_a
    THEN Failure(ERR_ASSETS_NOT_PRESERVED, v)
    ELSE
        [ok |-> TRUE, err |-> NO_ERR, path |-> "swap",
         vault |-> Credit(Debit(v, tokenB, tokens_b_in), tokenA, tokens_a_out),
         outputs |-> IF partial THEN <<p2id, leftover>> ELSE <<p2id>>,
         b_in |-> tokens_b_in, a_out |-> tokens_a_out, partial |-> partial]

\* The script body (begin ... end).
\* (variant: no expiration check, the creator reclaims only with empty args)
MainReclaimReadsArgs(script, note, argFill, consumerId, v, currentBlock) ==
    IF is_consumer_is_creator(note.inputs, consumerId) /\ argFill = 0
    THEN handle_reclaim(note, v)
    ELSE execute_SWAPp(script, note, argFill, v)
PswapMain(script, note, argFill, consumerId, v, currentBlock) ==
    IF is_expired(note.inputs, currentBlock)
    THEN IF is_consumer_is_creator(note.inputs, consumerId)
         THEN handle_reclaim(note, v)
         ELSE Failure(ERR_PSWAP_EXPIRED, v)
    ELSE IF is_consumer_is_creator(note.inputs, consumerId)
         THEN handle_reclaim(note, v)
         ELSE execute_SWAPp(script, note, argFill, v)

\* The standard P2ID script: only the target account may consume the note.
P2idMain(note, consumerId, v) ==
    IF consumerId.suffix = note.inputs[1] /\ consumerId.prefix = note.inputs[2]
    THEN [ok |-> TRUE, err |-> NO_ERR, path |-> "p2id",
          vault |-> Credit(v, note.assets[1].faucet, note.assets[1].amount),
          outputs |-> <<>>, b_in |-> 0, a_out |-> 0, partial |-> FALSE]
    ELSE Failure(ERR_NOT_TARGET, v)

RunNote(note, argFill, consumerId, v, currentBlock) ==
    IF note.kind = "PSWAP"
    THEN PswapMain(note.script, note, argFill, consumerId, v, currentBlock)
    ELSE P2idMain(note, consumerId, v)

-----------------------------------------------------------------------------
(* The chain: notes are kept in creation order, a consumed note stays in    *)
(* the list marked consumed.                                                *)

OnChain(note) == [note |-> note, consumed |-> FALSE]

LiveNotes == {i \in 1..Len(notes) : ~notes[i].consumed}

AppendAll(seq, outs) == seq \o [k \in 1..Len(outs) |-> OnChain(outs[k])]

NoTx == [kind |-> "none"]

\* A transaction of `consumer` consuming note i with the given note args.
\* A failed execution changes nothing on chain.
ExecuteConsume(i, consumer, argFill) ==
    LET note == notes[i].note
        res == RunNote(note, argFill, AccountIdOf[consumer], vault[consumer], block)
    IN  /\ last' = [kind |-> "tx", idx |-> i, consumer |-> consumer,
                    argFill |-> argFill, note |-> note, pre |-> vault[consumer],
                    blockAt |-> block,
                    expired |-> is_expired(note.inputs, block), res |-> res]
        /\ IF res.ok
           THEN /\ vault' = [vault EXCEPT ![consumer] = res.vault]
                /\ notes' = AppendAll([notes EXCEPT ![i].consumed = TRUE], res.outputs)
           ELSE UNCHANGED <<vault, notes>>
        /\ UNCHANGED block

-----------------------------------------------------------------------------
(* Part 2: what the pages build.  Note tags are kept as the constructor call *)
(* that made them (their u32 encoding does not fit the checker's integers);  *)
(* the SDK's NoteType enum is kept by name.                                   *)

OFFERED_AMOUNT == 1000
REQUESTED_AMOUNT == 1000
FILL_AMOUNT == 250
SWAP_USE_CASE_ID == 0

NoId == Id(0, 0, 0)

\* NoteTag.fromAccountId(id)
AccountTag(id) ==
    [kind |-> "fromAccountId", useCase |-> 0, payload |-> 0, account |-> id]

\* JavaScript's & and | on non-negative numbers, bit by bit.
RECURSIVE BitAnd(_, _)
BitAnd(x, y) ==
    IF x = 0 \/ y = 0 THEN 0
    ELSE (x % 2) * (y % 2) + 2 * BitAnd(x \div 2, y \div 2)

RECURSIVE BitOr(_, _)
BitOr(x, y) ==
    IF x = 0 THEN y
    ELSE IF y = 0 THEN x
    ELSE (IF x % 2 = 1 \/ y % 2 = 1 THEN 1 ELSE 0) + 2 * BitOr(x \div 2, y \div 2)

ShiftLeft(x, n) == x * 2^n

\* (prefix >> BigInt(56)) & BigInt(0xFF): the shift drops the low 56 bits.
TopByte(prefix) == BitAnd(prefix.top, 255)
LowByte(prefix) == BitAnd(prefix.low, 255)

\* buildSwapTag(noteType, offeredFaucetId, requestedFaucetId)
\* (variant: the lowest byte of each prefix instead of the top one)
BuildSwapTagLowBytes(noteType, offeredFaucetId, requestedFaucetId) ==
    LET payload == BitOr(ShiftLeft(LowByte(offeredFaucetId.prefix), 8),
                         LowByte(requestedFaucetId.prefix))
    IN  [kind |-> IF noteType = "Public" THEN "forPublicUseCase" ELSE "forLocalUseCase",
         useCase |-> SWAP_USE_CASE_ID, payload |-> payload, account |-> NoId]
buildSwapTag(noteType, offeredFaucetId, requestedFaucetId) ==
    LET offeredTag == TopByte(offeredFaucetId.prefix)
        requestedTag == TopByte(requestedFaucetId.prefix)
        payload == BitOr(ShiftLeft(offeredTag, 8), requestedTag)
    IN  IF noteType = "Public"
        THEN [kind |-> "forPublicUseCase", useCase |-> SWAP_USE_CASE_ID,
              payload |-> payload, account |-> NoId]
        ELSE [kind |-> "forLocalUseCase", useCase |-> SWAP_USE_CASE_ID,
              payload |-> payload, account |-> NoId]

\* The fill pages: the updated public page, the public page as committed
\* under app/partial, and the private page.
FillPages == {"public", "legacy", "private"}
Pages == FillPages \cup {"checker", "signing"}

PageNoteType(p) == IF p = "private" THEN "Private" ELSE "Public"
PageScript(p) == IF p = "private" THEN "pswap-private" ELSE "pswap"

\* const swappTag = ... in the create-swapp phase of each page
SwappTagOf(p, goldId, silverId, makerId) ==
    IF p = "legacy"
    THEN AccountTag(makerId)
    ELSE buildSwapTag(PageNoteType(p), goldId, silverId)

\* noteInputsArray: 14 felts, and NOTE_TYPE.PRIVATE as the 15th on the
\* private page.
PswapInputs(requested, faucet, swappTag, p2idTag, count, expiration, creator) ==
    <<requested, 0, faucet.suffix, faucet.prefix, swappTag, p2idTag, 0, 0,
      count, expiration, 0, 0, creator.prefix, creator.suffix>>

\* (variant: the private page leaves out the 15th slot)
NoteInputsArray14(p, requested, faucet, swappTag, p2idTag, count, expiration, creator) ==
    PswapInputs(requested, faucet, swappTag, p2idTag, count, expiration, creator)
NoteInputsArray(p, requested, faucet, swappTag, p2idTag, count, expiration, creator) ==
    IF p = "private"
    THEN PswapInputs(requested, faucet, swappTag, p2idTag, count, expiration, creator)
            \o <<NOTE_TYPE_PRIVATE>>
    ELSE PswapInputs(requested, faucet, swappTag, p2idTag, count, expiration, creator)

\* swappNote = new Note(noteAssets, noteMetadata, recipient)
SwappNote(p, goldId, silverId, makerId, offered, requested, expiration) ==
    LET swappTag == SwappTagOf(p, goldId, silverId, makerId)
        p2idTag == AccountTag(makerId)
    IN  [kind     |-> "PSWAP",
         script   |-> PageScript(p),
         assets   |-> <<Asset(goldId, offered)>>,
         inputs   |-> NoteInputsArray(p, requested, silverId, swappTag, p2idTag,
                                      0, expiration, makerId),
         serial   |-> <<1, 2, 3, 4>>,
         tag      |-> swappTag,
         noteType |-> PageNoteType(p),
         hint     |-> EXECUTION_HINT_ALWAYS,
         aux      |-> 0]

\* The note a faucet's mint transaction creates for a wallet.
MintNote(faucetId, targetId, amount) ==
    [kind     |-> "P2ID",
     script   |-> "p2id",
     assets   |-> <<Asset(faucetId, amount)>>,
     inputs   |-> <<targetId.suffix, targetId.prefix>>,
     serial   |-> <<"mint", faucetId.suffix, targetId.suffix>>,
     tag      |-> AccountTag(targetId),
     noteType |-> "Public",
     hint     |-> EXECUTION_HINT_ALWAYS,
     aux      |-> 0]

\* React state of a page before any run, and the constants of a flow before
\* they are assigned.
IdKeys == {"goldFaucetId", "silverFaucetId", "makerId", "takerId", "swappNoteId",
           "p2idNoteId", "leftoverNoteId"}
StrayKeys == {"goldFaucetIdHex", "silverFaucetIdHex", "makerIdHex", "takerIdHex"}
Null == [null |-> TRUE]

InitialState ==
    [phase |-> "idle", internalTestPhase |-> "idle", logs |-> <<>>,
     ids |-> [k \in IdKeys \cup StrayKeys |-> Null]]

NoTxReq ==
    [with |-> "none", inputNotes |-> <<>>, expectedFutureNotes |-> <<>>,
     expectedOutputRecipients |-> <<>>]

NoLoc ==
    [goldId |-> NoId, silverId |-> NoId, swappTag |-> AccountTag(NoId),
     swappIdx |-> 0, polls |-> 0, syncs |-> 0, slept |-> 0, found |-> FALSE,
     takerReceives |-> 0, leftoverOffered |-> 0,
     leftoverRequested |-> 0, leftoverSwappTag |-> AccountTag(NoId),
     expected |-> <<>>, fillTxReq |-> NoTxReq, submitCalls |-> <<>>]

NoRun == [n |-> 0, flow |-> "none", failed |-> FALSE, escaped |-> FALSE,
          swallowed |-> FALSE]

-----------------------------------------------------------------------------
(* Specification of the script alone: one PSWAP note of the maker with     *)
(* bounded amounts and expiration and either output note type, consumed by *)
(* any account with any fill.                                              *)

GoldId == Id(32, 1, 5)
SilverId == Id(255, 1, 7)

ScriptInit ==
    /\ \E a \in 1..MaxAmount, b \in 1..MaxAmount, e \in 0..MaxBlock,
          t \in {NOTE_TYPE_PRIVATE, NOTE_TYPE_PUBLIC} :
          notes = <<OnChain([SwappNote("private", GoldId, SilverId,
                                       AccountIdOf["maker"], a, b, e)
                                EXCEPT !.inputs[NOTE_TYPE_OUTPUT_INPUT + 1] = t])>>
    /\ vault = [acc \in Accounts |->
                  IF acc = "taker"
                  THEN [EmptyVault EXCEPT ![SilverId] = MaxAmount]
                  ELSE EmptyVault]
    /\ block = 0
    /\ last = NoTx
    /\ page = "private"
    /\ pc = "idle"
    /\ state = InitialState
    /\ loc = NoLoc
    /\ run = NoRun

ScriptConsume ==
    /\ \E i \in LiveNotes, consumer \in Accounts, argFill \in 0..MaxAmount :
          /\ notes[i].note.kind = "PSWAP"
          /\ ExecuteConsume(i, consumer, argFill)
    /\ UNCHANGED pageVars

\* The chain produces blocks as time passes.
NextBlock ==
    /\ block < MaxBlock
    /\ block' = block + 1
    /\ UNCHANGED <<vault, notes, last>>
    /\ UNCHANGED pageVars

ScriptNext == ScriptConsume \/ NextBlock

SpecScript == ScriptInit /\ [][ScriptNext]_vars

-----------------------------------------------------------------------------
(* Part 3: the page flows.  A flow is an async function: each action below  *)
(* is one stretch of it between phase changes, and every awaited call of    *)
(* the stretch either succeeds or throws.                                   *)

MaxRuns == 2        \* runs started on one page

\* The functions log(message) and setPhase(phase) hand to setState:
\*   (prev) => ({ ...prev, logs: [...prev.logs, `[hh:mm:ss] ${message}`] })
\*   (prev) => ({ ...prev, phase })
\* A log line of the model stands for the line with its time-of-day prefix;
\* the clock is not part of the state.
LogUpdate(message) == [fn |-> "log", arg |-> message]
PhaseUpdate(phase) == [fn |-> "setPhase", arg |-> phase]
Updater(u, prev) ==
    IF u.fn = "log"
    THEN [prev EXCEPT !.logs = Append(@, u.arg)]
    ELSE [prev EXCEPT !.phase = u.arg]

\* React runs the queued updater functions in the order of the setState
\* calls, each on the result of the one before it.
\* (variant: every update is computed from the state of the last render)
ApplyUpdatesStale(st, queue) ==
    IF queue = <<>> THEN st ELSE Updater(queue[Len(queue)], st)
RECURSIVE ApplyUpdates(_, _)
ApplyUpdates(st, queue) ==
    IF queue = <<>> THEN st ELSE ApplyUpdates(Updater(Head(queue), st), Tail(queue))

\* log(message) for each of the lines in turn, and setPhase(phase)
Log(st, lines) == ApplyUpdates(st, [k \in 1..Len(lines) |-> LogUpdate(lines[k])])
SetPhase(st, phase) == ApplyUpdates(st, <<PhaseUpdate(phase)>>)
SetField(st, key, value) == [st EXCEPT !.ids[key] = value]

\* The key the fill pages pass to setState for an account id.
FieldKeyOf(p, key) ==
    IF p = "private" THEN key
    ELSE CASE key = "goldFaucetId" -> "goldFaucetIdHex"
           [] key = "silverFaucetId" -> "silverFaucetIdHex"
           [] key = "makerId" -> "makerIdHex"
           [] key = "takerId" -> "takerIdHex"
           [] OTHER -> key

\* const isRunning = ... of the fill pages and the checker page
\* (variant: const isRunning = state.phase === "signing" of the signing page)
isRunningSigning == state.phase = "signing"
isRunning == state.phase \notin {"idle", "done", "error"}

\* catch (error) { setPhase("error"); log(...ERROR...); log(`${error}`) }
CatchError(st, error) == Log(SetPhase(st, "error"), <<"ERROR", error>>)

\* client.getConsumableNotes(account): notes the account can consume now.
ConsumableBy(nts, acc, v) ==
    {i \in 1..Len(nts) :
        /\ ~nts[i].consumed
        /\ RunNote(nts[i].note, 0, AccountIdOf[acc], v, block).ok}

\* One transaction of `acc` consuming the notes S in creation order
\* (newConsumeTransactionRequest: no note args).
RECURSIVE ConsumeAll(_, _, _, _)
ConsumeAll(nts, S, acc, v) ==
    IF S = {}
    THEN [ok |-> TRUE, vault |-> v, notes |-> nts]
    ELSE LET i == CHOOSE k \in S : \A m \in S : k <= m
             r == RunNote(nts[i].note, 0, AccountIdOf[acc], v, block)
         IN  IF ~r.ok
             THEN [ok |-> FALSE, vault |-> v, notes |-> nts]
             ELSE ConsumeAll(AppendAll([nts EXCEPT ![i].consumed = TRUE], r.outputs),
                             S \ {i}, acc, r.vault)

\* An awaited call of the stretch throws; the flow's catch block runs.
\* (variant: the error is caught around the failing step and the flow goes on)
ThrowsAndGoesOn(st, error) ==
    /\ state' = CatchError(st, error)
    /\ run' = [run EXCEPT !.failed = TRUE]
    /\ UNCHANGED <<chainVars, page, pc, loc>>
Throws(st, error) ==
    /\ state' = CatchError(st, error)
    /\ pc' = "idle"
    /\ run' = [run EXCEPT !.failed = TRUE]
    /\ UNCHANGED <<chainVars, page, loc>>

Init ==
    /\ page \in Pages
    /\ pc = "idle"
    /\ state = InitialState
    /\ loc = NoLoc
    /\ run = NoRun
    /\ vault = [acc \in Accounts |-> EmptyVault]
    /\ notes = <<>>
    /\ block = 0
    /\ last = NoTx

\* setState({ phase: "init", logs: [], goldFaucetId: null, ... }): the state
\* object is replaced, not merged.
\* (variant: a functional update that merges into the previous state)
ResetMerging == [state EXCEPT !.phase = "init"]
ResetState == [InitialState EXCEPT !.phase = "init"]

\* runTest up to its first await: the state is replaced, the banner logged.
\* Every run creates a new client, new faucets and new wallets.  The Run
\* button (disabled={isRunning}) is all that decides whether runTest starts.
StartRunTest ==
    /\ page \in FillPages
    /\ ~isRunning
    /\ run.n < MaxRuns
    /\ state' = Log(ResetState, <<"PSWAP PARTIAL FILL">>)
    /\ pc' = "init"
    /\ run' = [NoRun EXCEPT !.n = run.n + 1, !.flow = "runTest"]
    /\ loc' = NoLoc
    /\ vault' = [acc \in Accounts |-> EmptyVault]
    /\ notes' = <<>>
    /\ last' = NoTx
    /\ UNCHANGED <<page, block>>

\* PHASE 1: import the SDK, create the client, sync.
InitClient ==
    /\ page \in FillPages
    /\ pc = "init"
    /\ \/ /\ state' = SetPhase(Log(SetPhase(state, "init"), <<"Client initialized">>),
                               "create-faucets")
          /\ pc' = "create-faucets"
          /\ UNCHANGED <<chainVars, page, loc, run>>
       \/ Throws(state, "createClient failed")

\* PHASE 2: two faucets; their ids come from the network.
CreateFaucets ==
    /\ page \in FillPages
    /\ pc = "create-faucets"
    /\ \/ \E gold \in FaucetIdPool, silver \in FaucetIdPool :
            /\ gold # silver
            /\ state' = SetPhase(
                          SetField(SetField(state, FieldKeyOf(page, "goldFaucetId"), gold),
                                   FieldKeyOf(page, "silverFaucetId"), silver),
                          "create-wallets")
            /\ loc' = [loc EXCEPT !.goldId = gold, !.silverId = silver]
            /\ pc' = "create-wallets"
            /\ UNCHANGED <<chainVars, page, run>>
       \/ Throws(state, "newFaucet failed")

\* PHASE 3: the maker's and the taker's wallet.
CreateWallets ==
    /\ page \in FillPages
    /\ pc = "create-wallets"
    /\ \/ /\ state' = SetPhase(
                          SetField(SetField(state, FieldKeyOf(page, "makerId"),
                                            AccountIdOf["maker"]),
                                   FieldKeyOf(page, "takerId"), AccountIdOf["taker"]),
                          "mint-tokens")
          /\ pc' = "mint-tokens"
          /\ UNCHANGED <<chainVars, page, loc, run>>
       \/ Throws(state, "newWallet failed")

\* note.id(): the recipient and the assets identify a note
NoteIdOf(note) ==
    [serial |-> note.serial, script |-> note.script, inputs |-> note.inputs,
     assets |-> note.assets]

\* PHASE 4: both mint transactions, then each wallet consumes what
\* getConsumableNotes returns for it (nothing, if it returns nothing).
MintTokens ==
    /\ page \in FillPages
    /\ pc = "mint-tokens"
    /\ \/ LET minted == notes \o
                        <<OnChain(MintNote(loc.goldId, AccountIdOf["maker"], OFFERED_AMOUNT)),
                          OnChain(MintNote(loc.silverId, AccountIdOf["taker"], FILL_AMOUNT))>>
          IN  \E makerConsumable \in SUBSET ConsumableBy(minted, "maker", vault["maker"]) :
                LET m == ConsumeAll(minted, makerConsumable, "maker", vault["maker"])
                IN  \E takerConsumable \in SUBSET ConsumableBy(m.notes, "taker", vault["taker"]) :
                      LET t == ConsumeAll(m.notes, takerConsumable, "taker", vault["taker"])
                      IN  /\ m.ok /\ t.ok
                          /\ vault' = [vault EXCEPT !["maker"] = m.vault,
                                                    !["taker"] = t.vault]
                          /\ notes' = t.notes
                          /\ state' = SetPhase(Log(state, <<"PHASE 4: MINT TOKENS">>),
                                               "create-swapp")
                          /\ pc' = "create-swapp"
                          /\ UNCHANGED <<block, last, page, loc, run>>
       \/ Throws(state, "mint transaction failed")

\* PHASE 5: the maker's transaction creating the PSWAP note.  The note id
\* is stored before the transaction is executed; the transaction is
\* rejected when the maker does not hold the offered asset.
CreateSwapp ==
    /\ page \in FillPages
    /\ pc = "create-swapp"
    /\ LET makerId == AccountIdOf["maker"]
           swappNote == SwappNote(page, loc.goldId, loc.silverId, makerId,
                                  OFFERED_AMOUNT, REQUESTED_AMOUNT, 0)
           stored == SetField(Log(state, <<"PHASE 5: MAKER CREATES SWAPP NOTE">>),
                              "swappNoteId", NoteIdOf(swappNote))
       IN  \/ /\ vault["maker"][loc.goldId] >= OFFERED_AMOUNT
              /\ vault' = [vault EXCEPT !["maker"] = Debit(@, loc.goldId, OFFERED_AMOUNT)]
              /\ notes' = notes \o <<OnChain(swappNote)>>
              /\ loc' = [loc EXCEPT !.swappTag = swappNote.tag,
                                    !.swappIdx = Len(notes) + 1]
              /\ state' = stored
              /\ pc' = IF page = "private" THEN "wait-swapp" ELSE "add-tags"
              /\ UNCHANGED <<block, last, page, run>>
           \/ /\ vault["maker"][loc.goldId] < OFFERED_AMOUNT
              /\ Throws(stored, "executeTransaction: asset not in the maker's vault")
           \/ Throws(stored, "proveTransaction or submitProvenTransaction failed")

\* Public pages: try { addTag; addTag; syncState } catch { log warning }.
RegisterTags ==
    /\ page \in {"public", "legacy"}
    /\ pc = "add-tags"
    /\ \/ /\ state' = Log(state, <<"Registered SWAPP and P2ID tags and synced">>)
          /\ run' = run
       \/ /\ state' = Log(state, <<"WARNING: Failed to add tags or sync">>)
          /\ run' = [run EXCEPT !.failed = TRUE, !.swallowed = TRUE]
    /\ pc' = "poll"
    /\ loc' = [loc EXCEPT !.polls = 0]
    /\ UNCHANGED <<chainVars, page>>

\* Private page: a fixed wait and one sync before the fill.
WaitSwapp ==
    /\ page = "private"
    /\ pc = "wait-swapp"
    /\ \/ /\ state' = SetPhase(state, "fill-swapp")
          /\ pc' = "fill-swapp"
          /\ UNCHANGED <<chainVars, page, loc, run>>
       \/ Throws(state, "syncState failed")

\* for (let i = 0; i < 5; i++): the loop condition
\* (variant: one more iteration)
PollSixTimes(i) == i < 6
PollAgain(i) == i < 5

\* Public pages: one iteration of the polling loop (syncState,
\* getConsumableNotes, then break or a 3 s sleep), and what follows the loop
\* once it ends.
Poll ==
    /\ page \in {"public", "legacy"}
    /\ pc = "poll"
    /\ PollAgain(loc.polls)
    /\ \/ /\ loc.swappIdx \in ConsumableBy(notes, "taker", vault["taker"])
          /\ state' = SetPhase(Log(state, <<"SWAPP consumable by taker">>), "fill-swapp")
          /\ pc' = "fill-swapp"
          /\ loc' = [loc EXCEPT !.polls = @ + 1, !.syncs = @ + 1, !.found = TRUE]
          /\ UNCHANGED <<chainVars, page, run>>
       \/ /\ loc' = [loc EXCEPT !.polls = @ + 1, !.syncs = @ + 1, !.slept = @ + 3]
          /\ IF PollAgain(loc.polls + 1)
             THEN /\ state' = Log(state, <<"Poll: not yet consumable">>)
                  /\ pc' = "poll"
             ELSE /\ state' = SetPhase(
                                Log(state, <<"Poll: not yet consumable",
                                             "WARNING: SWAPP never became consumable">>),
                                "fill-swapp")
                  /\ pc' = "fill-swapp"
          /\ UNCHANGED <<chainVars, page, run>>
       \/ Throws(state, "syncState or getConsumableNotes failed")

\* The expected future notes the updated public page and the private page
\* hand to the fill transaction (NoteDetailsAndTag: assets, recipient, tag).
ExpectedP2id(silverId, makerId) ==
    [kind   |-> "P2ID",
     script |-> "p2id",
     assets |-> <<Asset(silverId, FILL_AMOUNT)>>,
     inputs |-> <<makerId.suffix, makerId.prefix>>,
     serial |-> <<"hmerge", <<1, 2, 3, 4>>, <<1, 0, 0, 0>>>>,
     tag    |-> AccountTag(makerId)]

\* (variant: the maker's account tag in the leftover note's swap-tag slot)
ExpectedLeftoverAccountTag(p, goldId, silverId, makerId, leftoverOffered, leftoverRequested, leftoverSwappTag) ==
    [kind   |-> "PSWAP",
     script |-> PageScript(p),
     assets |-> <<Asset(goldId, leftoverOffered)>>,
     inputs |-> NoteInputsArray(p, leftoverRequested, silverId, AccountTag(makerId),
                                AccountTag(makerId), 1, 0, makerId),
     serial |-> <<1, 2, 3, 5>>,
     tag    |-> leftoverSwappTag]
ExpectedLeftover(p, goldId, silverId, makerId, leftoverOffered, leftoverRequested, leftoverSwappTag) ==
    [kind   |-> "PSWAP",
     script |-> PageScript(p),
     assets |-> <<Asset(goldId, leftoverOffered)>>,
     inputs |-> NoteInputsArray(p, leftoverRequested, silverId, leftoverSwappTag,
                                AccountTag(makerId), 1, 0, makerId),
     serial |-> <<1, 2, 3, 5>>,
     tag    |-> leftoverSwappTag]

\* Legacy page after the fill: p2idNoteId from output 0, leftoverNoteId
\* from output 2.
StoreOutputIds(st, outputs) ==
    LET first == IF Len(outputs) >= 1
                 THEN SetField(st, "p2idNoteId", NoteIdOf(outputs[1]))
                 ELSE st
    IN  IF Len(outputs) >= 3
        THEN SetField(first, "leftoverNoteId", NoteIdOf(outputs[3]))
        ELSE first

\* const noteArgs = new Word(new BigUint64Array([0, 0, 0, FILL_AMOUNT]))
NoteArgs(fill) == <<0, 0, 0, fill>>

\* The recipient of a note: serial number, script and inputs.
RecipientOf(note) ==
    [serial |-> note.serial, script |-> note.script, inputs |-> note.inputs]

\* fillTxReq = new TransactionRequestBuilder()....build(), page by page
FillTxReq(p, swappNote, noteArgs, expected) ==
    [with |-> IF p = "private" THEN "withUnauthenticatedInputNotes"
                               ELSE "withAuthenticatedInputNotes",
     inputNotes |-> <<[note |-> NoteIdOf(swappNote), args |-> noteArgs]>>,
     expectedFutureNotes |-> IF p = "legacy" THEN <<>> ELSE expected,
     expectedOutputRecipients |->
         IF p = "legacy" THEN <<>>
         ELSE [k \in 1..Len(expected) |-> RecipientOf(expected[k])]]

\* The client calls that execute and submit the fill, page by page.
SubmitCalls(p) ==
    IF p = "legacy"
    THEN <<"executeTransaction", "proveTransaction", "submitProvenTransaction",
           "applyTransaction">>
    ELSE <<"submitNewTransaction">>

\* PHASE 6: the fill amounts, the expected notes, and the taker's
\* transaction consuming the PSWAP note with note args [0, 0, 0, FILL_AMOUNT].
\* On the updated public page the unfiltered getConsumableNotes() sits in a
\* try/catch of its own that falls back to the per-account calls.
FillSwapp ==
    /\ page \in FillPages
    /\ pc = "fill-swapp"
    /\ LET makerId == AccountIdOf["maker"]
           takerReceives == (FILL_AMOUNT * OFFERED_AMOUNT) \div REQUESTED_AMOUNT
           leftoverOffered == OFFERED_AMOUNT - takerReceives
           leftoverRequested == REQUESTED_AMOUNT - FILL_AMOUNT
           leftoverSwappTag ==
               IF page = "legacy" THEN loc.leftoverSwappTag
               ELSE buildSwapTag(PageNoteType(page), loc.goldId, loc.silverId)
           expected ==
               IF page = "legacy" THEN <<>>
               ELSE <<ExpectedP2id(loc.silverId, makerId),
                      ExpectedLeftover(page, loc.goldId, loc.silverId, makerId,
                                       leftoverOffered, leftoverRequested,
                                       leftoverSwappTag)>>
           noteArgs == NoteArgs(FILL_AMOUNT)
           fillTxReq == FillTxReq(page, notes[loc.swappIdx].note, noteArgs, expected)
           res == RunNote(notes[loc.swappIdx].note, noteArgs[4], AccountIdOf["taker"],
                          vault["taker"], block)
           logged == Log(state, <<"PHASE 6: TAKER FILLS 25%">>)
       IN  \/ \E fallback \in (IF page = "public" THEN BOOLEAN ELSE {FALSE}) :
                /\ ExecuteConsume(loc.swappIdx, "taker", noteArgs[4])
                /\ loc' = [loc EXCEPT !.takerReceives = takerReceives,
                                      !.leftoverOffered = leftoverOffered,
                                      !.leftoverRequested = leftoverRequested,
                                      !.leftoverSwappTag = leftoverSwappTag,
                                      !.expected = expected,
                                      !.fillTxReq = fillTxReq,
                                      !.submitCalls = SubmitCalls(page)]
                /\ IF res.ok
                   THEN /\ state' = SetPhase(
                                      IF page = "legacy"
                                      THEN StoreOutputIds(logged, res.outputs)
                                      ELSE logged,
                                      "consume-p2id")
                        /\ pc' = "consume-p2id"
                        /\ run' = IF fallback
                                  THEN [run EXCEPT !.failed = TRUE, !.swallowed = TRUE]
                                  ELSE run
                   ELSE /\ state' = CatchError(logged, res.err)
                        /\ pc' = "idle"
                        /\ run' = [run EXCEPT !.failed = TRUE]
                /\ UNCHANGED page
           \/ Throws(logged, "getAccount, getInputNote or syncState failed")

\* PHASE 7: the maker consumes whatever getConsumableNotes returns for it.
ConsumeP2id ==
    /\ page \in FillPages
    /\ pc = "consume-p2id"
    /\ \/ \E makerP2idNotes \in SUBSET ConsumableBy(notes, "maker", vault["maker"]) :
            LET m == ConsumeAll(notes, makerP2idNotes, "maker", vault["maker"])
            IN  /\ m.ok
                /\ vault' = [vault EXCEPT !["maker"] = m.vault]
                /\ notes' = m.notes
                /\ state' = SetPhase(
                              Log(state, IF makerP2idNotes # {}
                                         THEN <<"Maker consumed P2ID note(s)">>
                                         ELSE <<"WARNING: No P2ID notes found for maker">>),
                              "verify")
                /\ pc' = "verify"
                /\ UNCHANGED <<block, last, page, loc, run>>
       \/ Throws(state, "syncState or consume transaction failed")

\* PHASE 8: both accounts are read and their balances logged.
Verify ==
    /\ page \in FillPages
    /\ pc = "verify"
    /\ \/ /\ state' = Log(SetPhase(Log(state, <<"=== FINAL BALANCES ===">>), "done"),
                          <<"TEST COMPLETE">>)
          /\ pc' = "idle"
          /\ UNCHANGED <<chainVars, page, loc, run>>
       \/ Throws(state, "getAccount failed")

-----------------------------------------------------------------------------
(* The note lookup page: runCheck has no try/catch and never sets a phase. *)

\* A rejected await of runCheck: the promise runCheck returns is rejected,
\* the React state is left as it is.
Escapes ==
    /\ pc' = "idle"
    /\ run' = [run EXCEPT !.failed = TRUE, !.escaped = TRUE]
    /\ UNCHANGED <<chainVars, page, state, loc>>

StartRunCheck ==
    /\ page = "checker"
    /\ pc = "idle"
    /\ ~isRunning
    /\ run.n < MaxRuns
    /\ pc' = "check-client"
    /\ run' = [NoRun EXCEPT !.n = run.n + 1, !.flow = "runCheck"]
    /\ UNCHANGED <<chainVars, page, state, loc>>

\* import, createClient, syncState, getSyncHeight
CheckClient ==
    /\ page = "checker"
    /\ pc = "check-client"
    /\ \/ /\ state' = Log(state, <<"WebClient created!", "Synced to block">>)
          /\ pc' = "check-fetch"
          /\ UNCHANGED <<chainVars, page, loc, run>>
       \/ Escapes

\* getRpcNote: a failing getNotesById is caught inside it and gives null.
CheckFetch ==
    /\ page = "checker"
    /\ pc = "check-fetch"
    /\ \/ /\ pc' = "idle"
          /\ UNCHANGED <<chainVars, page, state, loc, run>>
       \/ /\ pc' = "idle"
          /\ run' = [run EXCEPT !.failed = TRUE, !.swallowed = TRUE]
          /\ UNCHANGED <<chainVars, page, state, loc>>
       \/ /\ state' = Log(state, <<"Note ID", "Sender, Tag, Note Type">>)
          /\ pc' = "idle"
          /\ UNCHANGED <<chainVars, page, loc, run>>
       \/ /\ state' = Log(state, <<"Note ID", "Sender, Tag, Note Type", "Found the NoteID!">>)
          /\ pc' = "check-import"
          /\ UNCHANGED <<chainVars, page, loc, run>>
       \/ Escapes

\* importNoteFile inside try { } catch { console.error; throw new Error("fail") }
CheckImport ==
    /\ page = "checker"
    /\ pc = "check-import"
    /\ \/ /\ pc' = "idle"
          /\ UNCHANGED <<chainVars, page, state, loc, run>>
       \/ Escapes

-----------------------------------------------------------------------------
(* The signing page: runSigningTest drives phase, runInternalWalletTest    *)
(* drives internalTestPhase.                                               *)

StartSigningTest ==
    /\ page = "signing"
    /\ pc = "idle"
    /\ state.phase # "signing"
    /\ run.n < MaxRuns
    /\ run' = [NoRun EXCEPT !.n = run.n + 1, !.flow = "runSigningTest"]
    /\ \E signBytes \in BOOLEAN :
          IF signBytes
          THEN /\ state' = Log(SetPhase(state, "signing"),
                               <<"=== Starting Signing Test ===">>)
               /\ pc' = "sign-word"
          ELSE /\ state' = SetPhase(Log(state, <<"signBytes not available">>), "error")
               /\ pc' = "idle"
    /\ UNCHANGED <<chainVars, page, loc>>

\* Tests 2-6: two signatures of kind "word", digest, importKey, encrypt,
\* decrypt.  A throw lands in the inner catch, which tries "signingInputs".
\* The wallet decides whether the two signatures are the same bytes; an
\* AES-GCM decryption with the key and iv of the encryption returns the
\* plaintext or throws.
SignWord ==
    /\ page = "signing"
    /\ pc = "sign-word"
    /\ \/ \E areEqual \in BOOLEAN :
            /\ state' = SetPhase(
                          Log(state,
                              <<IF areEqual THEN "Signatures match: YES"
                                            ELSE "Signatures match: NO",
                                "Round-trip success: YES",
                                "=== All tests passed! ===">>),
                          "done")
            /\ pc' = "idle"
            /\ run' = run
       \/ /\ state' = Log(state, <<"Signing error">>)
          /\ pc' = "sign-fallback"
          /\ run' = [run EXCEPT !.failed = TRUE]
    /\ UNCHANGED <<chainVars, page, loc>>

SignFallback ==
    /\ page = "signing"
    /\ pc = "sign-fallback"
    /\ \E ok \in BOOLEAN :
          state' = SetPhase(
                     Log(state, <<IF ok THEN "signingInputs signature received"
                                        ELSE "signingInputs also failed">>),
                     "error")
    /\ pc' = "idle"
    /\ UNCHANGED <<chainVars, page, loc, run>>

StartInternalTest ==
    /\ page = "signing"
    /\ pc = "idle"
    /\ state.internalTestPhase # "running"
    /\ run.n < MaxRuns
    /\ run' = [NoRun EXCEPT !.n = run.n + 1, !.flow = "runInternalWalletTest"]
    /\ state' = Log([state EXCEPT !.internalTestPhase = "running"],
                    <<"=== Starting INTERNAL Wallet Signing Test ===">>)
    /\ pc' = "internal-sign"
    /\ UNCHANGED <<chainVars, page, loc>>

\* client, wallet, SecretKey signatures, digest, AES round trip
InternalSign ==
    /\ page = "signing"
    /\ pc = "internal-sign"
    /\ \/ /\ state' = Log(state, <<"Internal signatures and AES round trip">>)
          /\ pc' = "internal-retrieve"
          /\ run' = run
       \/ /\ state' = [Log(state, <<"Internal wallet test error">>)
                         EXCEPT !.internalTestPhase = "error"]
          /\ pc' = "idle"
          /\ run' = [run EXCEPT !.failed = TRUE]
    /\ UNCHANGED <<chainVars, page, loc>>

\* Test 7 in its own try/catch, then internalTestPhase: "done"
InternalRetrieve ==
    /\ page = "signing"
    /\ pc = "internal-retrieve"
    /\ \/ /\ state' = [Log(state, <<"SecretKey can be serialized/deserialized!",
                                    "=== Internal wallet test passed! ===">>)
                         EXCEPT !.internalTestPhase = "done"]
          /\ run' = run
       \/ /\ state' = [Log(state, <<"Could not retrieve/reconstruct key",
                                    "=== Internal wallet test passed! ===">>)
                         EXCEPT !.internalTestPhase = "done"]
          /\ run' = [run EXCEPT !.failed = TRUE, !.swallowed = TRUE]
    /\ pc' = "idle"
    /\ UNCHANGED <<chainVars, page, loc>>

-----------------------------------------------------------------------------

Next ==
    \/ StartRunTest \/ InitClient \/ CreateFaucets \/ CreateWallets \/ MintTokens
    \/ CreateSwapp \/ RegisterTags \/ WaitSwapp \/ Poll \/ FillSwapp
    \/ ConsumeP2id \/ Verify
    \/ StartRunCheck \/ CheckClient \/ CheckFetch \/ CheckImport
    \/ StartSigningTest \/ SignWord \/ SignFallback
    \/ StartInternalTest \/ InternalSign \/ InternalRetrieve
    \/ NextBlock

Spec == Init /\ [][Next]_vars

\* Every awaited call of a running flow eventually returns or throws: the
\* steps that continue a started flow are taken eventually.
Continue ==
    \/ InitClient \/ CreateFaucets \/ CreateWallets \/ MintTokens
    \/ CreateSwapp \/ RegisterTags \/ WaitSwapp \/ Poll \/ FillSwapp
    \/ ConsumeP2id \/ Verify
    \/ CheckClient \/ CheckFetch \/ CheckImport
    \/ SignWord \/ SignFallback \/ InternalSign \/ InternalRetrieve

FairSpec == Init /\ [][Next]_vars /\ WF_vars(Continue)

-----------------------------------------------------------------------------
(* Properties of the note script, stated on the last executed transaction. *)

LastPswap == last.kind = "tx" /\ last.note.kind = "PSWAP"

CreatorOf(note) ==
    [prefix |-> Slot(note.inputs, SWAPP_CREATOR_PREFIX_INPUT),
     suffix |-> Slot(note.inputs, SWAPP_CREATOR_SUFFIX_INPUT)]
ByCreator == AccountIdOf[last.consumer] = CreatorOf(last.note)
OfferedFaucet(note) == note.assets[1].faucet
OfferedAmount(note) == note.assets[1].amount
RequestedFaucet(note) == [prefix |-> Slot(note.inputs, 3), suffix |-> Slot(note.inputs, 2)]
RequestedAmount(note) == Slot(note.inputs, 0)
ExpirationOf(note) == Slot(note.inputs, EXPIRATION_BLOCK_INPUT)

\* "Expired" as the script header documents it: an expiration block is set
\* and the current block has reached it.
ExpiredAsDocumented ==
    /\ ExpirationOf(last.note) # 0
    /\ last.blockAt >= ExpirationOf(last.note)

AmountIn(note, faucet) ==
    IF note.assets[1].faucet = faucet THEN note.assets[1].amount ELSE 0

RECURSIVE SumIn(_, _)
SumIn(outs, faucet) ==
    IF outs = <<>> THEN 0
    ELSE AmountIn(Head(outs), faucet) + SumIn(Tail(outs), faucet)

IsP2idToCreator(out, amount) ==
    /\ out.kind = "P2ID"
    /\ out.assets = <<Asset(RequestedFaucet(last.note), amount)>>
    /\ out.inputs = <<CreatorOf(last.note).suffix, CreatorOf(last.note).prefix>>

\* C4 (as claimed): a successful fill by a non-creator of a non-expired note
\* with the full requested amount b creates exactly one output note, the P2ID
\* note carrying b of the requested asset, and no leftover PSWAP note.
C4_FullFillSingleP2id ==
    ( /\ LastPswap
      /\ ~ByCreator
      /\ ~ExpiredAsDocumented
      /\ last.res.ok
      /\ OfferedAmount(last.note) > 0
      /\ RequestedAmount(last.note) > 0
      /\ last.res.b_in = RequestedAmount(last.note) )
    => /\ Len(last.res.outputs) = 1
       /\ IsP2idToCreator(last.res.outputs[1], RequestedAmount(last.note))

PartialFillDone ==
    /\ LastPswap
    /\ ~ByCreator
    /\ ~ExpiredAsDocumented
    /\ last.res.ok
    /\ last.res.a_out < OfferedAmount(last.note)
    /\ last.res.b_in < RequestedAmount(last.note)

\* C5: a partial fill (tokens_a_out < a, b_in < b) by a non-creator creates
\* exactly two notes: the P2ID note to the creator with b_in of the requested
\* asset and the leftover PSWAP note with a - tokens_a_out offered and
\* b - b_in requested; the consumer gains tokens_a_out offered, loses b_in
\* requested, and every asset is conserved over the vault and the notes.
C5_PartialFillOutputs ==
    PartialFillDone =>
    LET res == last.res
        a == OfferedAmount(last.note)
        b == RequestedAmount(last.note)
        fa == OfferedFaucet(last.note)
        fb == RequestedFaucet(last.note)
        after == vault[last.consumer]
    IN  /\ Len(res.outputs) = 2
        /\ IsP2idToCreator(res.outputs[1], res.b_in)
        /\ res.outputs[2].kind = "PSWAP"
        /\ res.outputs[2].assets = <<Asset(fa, a - res.a_out)>>
        /\ Slot(res.outputs[2].inputs, 0) = b - res.b_in
        /\ after[fa] = last.pre[fa] + res.a_out
        /\ after[fb] = last.pre[fb] - res.b_in
        /\ \A f \in FaucetIdPool :
              last.pre[f] + AmountIn(last.note, f) = after[f] + SumIn(res.outputs, f)
        /\ notes[last.idx].consumed
        /\ SubSeq(notes, Len(notes) - 1, Len(notes))
              = <<OnChain(res.outputs[1]), OnChain(res.outputs[2])>>

C5_Witness ==
    /\ PartialFillDone
    /\ last.res.a_out > 0
    /\ last.pre[OfferedFaucet(last.note)] > 0

\* C6 (as claimed): is_expired is false when the expiration block is 0, and
\* otherwise true exactly when the current block >= the expiration block.
C6_IsExpiredAsDocumented ==
    LastPswap => (last.expired <=> ExpiredAsDocumented)

\* C7 (as claimed): once the note has expired, a non-creator's consumption
\* fails with ERR_PSWAP_EXPIRED and changes nothing; the creator's consumption
\* returns the whole offered asset and creates no note.
C7_ExpiredHandling ==
    (LastPswap /\ ExpiredAsDocumented) =>
        IF ByCreator
        THEN /\ last.res.ok
             /\ last.res.outputs = <<>>
             /\ last.res.vault = Credit(last.pre, OfferedFaucet(last.note),
                                        OfferedAmount(last.note))
        ELSE /\ ~last.res.ok
             /\ last.res.err = ERR_PSWAP_EXPIRED
             /\ last.res.outputs = <<>>
             /\ last.res.vault = last.pre

CreatorReclaimsUnexpired ==
    /\ LastPswap
    /\ ByCreator
    /\ (~ExpiredAsDocumented \/ ~last.expired)

\* C8: when the note has not expired and the creator consumes it, the whole
\* offered asset goes to the creator's vault, no P2ID and no leftover note is
\* created, and the outcome is the same for every fill amount in the args.
C8_CreatorReclaim ==
    CreatorReclaimsUnexpired =>
        /\ last.res.ok
        /\ last.res.path = "reclaim"
        /\ last.res.outputs = <<>>
        /\ vault[last.consumer] = Credit(last.pre, OfferedFaucet(last.note),
                                         OfferedAmount(last.note))
        /\ notes[last.idx].consumed
        /\ \A f \in 0..MaxAmount :
              PswapMain(last.note.script, last.note, f, AccountIdOf[last.consumer],
                        last.pre, last.blockAt) = last.res

C8_Witness ==
    /\ CreatorReclaimsUnexpired
    /\ last.argFill > 0
    /\ ExpirationOf(last.note) # 0

-----------------------------------------------------------------------------
(* Properties of the page flows. *)

Range(seq) == {seq[i] : i \in 1..Len(seq)}

ErrorLines == {"ERROR", "Signing error", "Internal wallet test error"}

\* C1 (as claimed): in every page flow, once a run in which an awaited call
\* failed has ended, the failure was caught inside the flow, a line carrying
\* the error is in the log, and the phase is "error" until the next run.
C1_FailureSurfacesAsError ==
    (run.failed /\ pc = "idle") =>
        /\ ~run.escaped
        /\ Range(state.logs) \cap ErrorLines # {}
        /\ state.phase = "error"

\* C2 (as claimed): whenever a fill flow has reached phase "done", the maker
\* holds 750 GOLD and 250 SILVER and the taker holds 250 GOLD.
C2_FinalBalances ==
    (page \in FillPages /\ state.phase = "done") =>
        /\ vault["maker"][loc.goldId] = 750
        /\ vault["maker"][loc.silverId] = 250
        /\ vault["taker"][loc.goldId] = 250

FillSucceeded ==
    /\ page \in FillPages
    /\ last.kind = "tx"
    /\ last.res.ok

\* C3: for 1000 offered, 1000 requested and a fill of 250 the page computes
\* takerReceives = 250, leftoverOffered = 750, leftoverRequested = 750 and
\* puts them into the expected notes (P2ID: 250 SILVER; leftover: 750 GOLD,
\* input 0 = 750); calculate_tokens_a_for_b gives 250 for the same inputs,
\* and the leftover note the script creates has 750 offered, 750 requested.
C3_FillAmounts ==
    FillSucceeded =>
        /\ loc.takerReceives = 250
        /\ loc.leftoverOffered = 750
        /\ loc.leftoverRequested = 750
        /\ page # "legacy" =>
              /\ Len(loc.expected) = 2
              /\ loc.expected[1].assets = <<Asset(loc.silverId, 250)>>
              /\ loc.expected[2].assets = <<Asset(loc.goldId, 750)>>
              /\ Slot(loc.expected[2].inputs, 0) = 750
        /\ calculate_tokens_a_for_b(OFFERED_AMOUNT, REQUESTED_AMOUNT, FILL_AMOUNT) = 250
        /\ last.res.a_out = 250
        /\ Len(last.res.outputs) = 2
        /\ last.res.outputs[2].kind = "PSWAP"
        /\ last.res.outputs[2].assets = <<Asset(loc.goldId, 750)>>
        /\ Slot(last.res.outputs[2].inputs, 0) = 750

C3_Witness ==
    /\ FillSucceeded
    /\ page = "public"
    /\ state.phase = "consume-p2id"
    /\ Len(loc.expected) = 2
    /\ vault["taker"][loc.goldId] = 250

\* C9 (as claimed): on every fill page the tag in the PSWAP note's metadata
\* and in input slot 4 is buildSwapTag(noteType, offered faucet, requested
\* faucet), never NoteTag.fromAccountId of the maker.
C9_SwappTagFromAssetPair ==
    (page \in FillPages /\ loc.swappIdx # 0) =>
        LET swappNote == notes[loc.swappIdx].note
            built == buildSwapTag(PageNoteType(page), loc.goldId, loc.silverId)
        IN  /\ swappNote.tag = built
            /\ Slot(swappNote.inputs, SWAPP_TAG_INPUT) = built
            /\ swappNote.tag.kind # "fromAccountId"

NoteTypes == {"Public", "Private"}

\* C10: for the faucet ids of a run, buildSwapTag's payload is 256 * (top byte
\* of the offered faucet's prefix) + (top byte of the requested faucet's
\* prefix), lies in 0..65535 and depends on nothing else (not on the note
\* type, not on the other bits of the ids); the PSWAP note, the expected
\* leftover note and the leftover note the script creates carry the same tag.
C10_SwapTagPayload ==
    (page \in {"public", "private"} /\ loc.goldId # NoId) =>
        /\ \A noteType \in NoteTypes :
              LET tag == buildSwapTag(noteType, loc.goldId, loc.silverId)
              IN  /\ tag.payload = 256 * loc.goldId.prefix.top + loc.silverId.prefix.top
                  /\ tag.payload \in 0..65535
                  /\ \A twin \in FaucetIdPool :
                        /\ twin.prefix.top = loc.goldId.prefix.top =>
                              buildSwapTag(noteType, twin, loc.silverId) = tag
                        /\ twin.prefix.top = loc.silverId.prefix.top =>
                              buildSwapTag(noteType, loc.goldId, twin) = tag
        /\ buildSwapTag("Public", loc.goldId, loc.silverId).payload
              = buildSwapTag("Private", loc.goldId, loc.silverId).payload
        /\ loc.swappIdx # 0 =>
              LET swappNote == notes[loc.swappIdx].note
              IN  /\ swappNote.tag = buildSwapTag(PageNoteType(page), loc.goldId, loc.silverId)
                  /\ loc.expected # <<>> =>
                        /\ loc.leftoverSwappTag = swappNote.tag
                        /\ loc.expected[2].tag = swappNote.tag
                        /\ Slot(loc.expected[2].inputs, SWAPP_TAG_INPUT)
                              = Slot(swappNote.inputs, SWAPP_TAG_INPUT)
                  /\ (last.kind = "tx" /\ last.res.ok /\ Len(last.res.outputs) = 2) =>
                        /\ last.res.outputs[2].tag = swappNote.tag
                        /\ Slot(last.res.outputs[2].inputs, SWAPP_TAG_INPUT)
                              = swappNote.tag

C10_Witness ==
    /\ page = "private"
    /\ loc.swappIdx # 0
    /\ loc.expected # <<>>
    /\ last.kind = "tx" /\ last.res.ok /\ Len(last.res.outputs) = 2
    /\ loc.goldId.prefix.top = 32
    /\ loc.silverId.prefix.low = 300
-----------------------------------------------------------------------------
(* Note input arrays. *)

SwappBuilt == page \in FillPages /\ loc.swappIdx # 0
TheSwappNote == notes[loc.swappIdx].note

\* The documented order of the slots, for a note of page p.
HasInputsLayout(inputs, p, requested, swappTag, count) ==
    /\ Len(inputs) = (IF p = "private" THEN 15 ELSE 14)
    /\ SubSeq(inputs, 1, 14) =
          <<requested, 0, loc.silverId.suffix, loc.silverId.prefix, swappTag,
            AccountTag(AccountIdOf["maker"]), 0, 0, count, 0, 0, 0,
            AccountIdOf["maker"].prefix, AccountIdOf["maker"].suffix>>
    /\ p = "private" => inputs[15] = NOTE_TYPE_PRIVATE

\* The same inputs cut or zero-padded to n slots.
Resize(inputs, n) == [k \in 1..n |-> IF k <= Len(inputs) THEN inputs[k] ELSE 0]

\* C11: the inputs of the PSWAP note a page builds and of its expected
\* leftover note have 14 slots on the public pages and 15 on the private page,
\* in the order requested amount, 0, requested faucet suffix and prefix, swap
\* tag, P2ID tag, 0, 0, swap count, expiration block, 0, 0, creator prefix
\* and suffix, (private) NOTE_TYPE_OUTPUT; and a fill that reaches
\* execute_SWAPp of the private script fails with
\* ERR_SWAP_WRONG_NUMBER_OF_INPUTS exactly when the number of inputs is not 15
\* (checked for 13 to MaxInputs inputs, the creator's prefix being present).
C11_NoteInputsLayout ==
    SwappBuilt =>
        /\ HasInputsLayout(TheSwappNote.inputs, page, REQUESTED_AMOUNT,
                           TheSwappNote.tag, 0)
        /\ Len(TheSwappNote.inputs) = NumInputs(TheSwappNote.script)
        /\ loc.expected # <<>> =>
              HasInputsLayout(loc.expected[2].inputs, page, loc.leftoverRequested,
                              loc.expected[2].tag, 1)
        /\ page = "private" =>
              \A n \in SWAPP_CREATOR_SUFFIX_INPUT..MaxInputs :
                 LET res == PswapMain("pswap-private",
                                      [TheSwappNote EXCEPT !.inputs = Resize(@, n)],
                                      FILL_AMOUNT, AccountIdOf["taker"],
                                      vault["taker"], block)
                 IN  IF n = 15
                     THEN res.err # ERR_SWAP_WRONG_NUMBER_OF_INPUTS
                     ELSE ~res.ok /\ res.err = ERR_SWAP_WRONG_NUMBER_OF_INPUTS
        /\ (last.kind = "tx" /\ last.note.kind = "PSWAP" /\ last.consumer = "taker") =>
              (last.res.err = ERR_SWAP_WRONG_NUMBER_OF_INPUTS
                 <=> Len(last.note.inputs) # NumInputs(last.note.script))

C11_Witness ==
    /\ page = "private"
    /\ SwappBuilt
    /\ loc.expected # <<>>
    /\ last.kind = "tx" /\ last.res.ok /\ last.res.partial
    /\ Len(loc.expected[2].inputs) = 15
-----------------------------------------------------------------------------
(* Output note type and swap count through successive fills. *)

NoteTypeOutputOf(note) == Slot(note.inputs, NOTE_TYPE_OUTPUT_INPUT)

SwapDone == LastPswap /\ last.res.ok /\ last.res.path = "swap"

\* C12: in a fill with the private script every output note (the P2ID note
\* and the leftover PSWAP note) has the note type held in input slot 14 of
\* the consumed note, the leftover note's slot 14 equals the consumed note's
\* slot 14, and so every PSWAP note descending from the original note carries
\* the original note's slot 14.
C12_OutputNoteTypeInherited ==
    /\ SwapDone =>
          /\ \A k \in 1..Len(last.res.outputs) :
                last.res.outputs[k].noteType = NoteTypeOutputOf(last.note)
          /\ last.res.partial =>
                /\ last.res.outputs[2].kind = "PSWAP"
                /\ Len(last.res.outputs[2].inputs) = 15
                /\ NoteTypeOutputOf(last.res.outputs[2]) = NoteTypeOutputOf(last.note)
    /\ \A i \in 1..Len(notes) :
          notes[i].note.kind = "PSWAP" =>
             NoteTypeOutputOf(notes[i].note) = NoteTypeOutputOf(notes[1].note)
    /\ \A i \in 2..Len(notes) :
          notes[i].note.noteType = NoteTypeOutputOf(notes[1].note)

\* A second partial fill, of a leftover note, with public output notes.
C12_Witness ==
    /\ SwapDone
    /\ last.res.partial
    /\ last.idx > 1
    /\ NoteTypeOutputOf(last.note) = NOTE_TYPE_PUBLIC
    /\ Len(notes) >= 5
-----------------------------------------------------------------------------
(* The polling loop of the public pages. *)

PollPage == page \in {"public", "legacy"}

PollLoopInv ==
    PollPage =>
        /\ loc.polls \in 0..5
        /\ loc.syncs = loc.polls
        /\ loc.slept = 3 * (loc.polls - (IF loc.found THEN 1 ELSE 0))
        /\ loc.found => (loc.polls >= 1 /\ pc # "poll")
        /\ pc = "poll" => (loc.polls < 5 /\ ~loc.found)
        /\ pc = "fill-swapp" =>
              /\ state.phase = "fill-swapp"
              /\ loc.found \/ loc.polls = 5

PollLoopExit ==
    (PollPage /\ pc = "poll" /\ pc' # "poll") =>
        \/ pc' = "fill-swapp" /\ state'.phase = "fill-swapp"
        \/ pc' = "idle" /\ state'.phase = "error"

\* C13: the polling loop makes at most 5 polls, one syncState before each;
\* it stops at the first poll that finds the SWAPP note among the taker's
\* consumable notes, sleeps 3 s after each poll that does not, always ends,
\* and when it ends without a throw the flow is in phase fill-swapp whether
\* or not the note was found.
C13_PollingLoop ==
    /\ []PollLoopInv
    /\ [][PollLoopExit]_vars
    /\ (PollPage /\ pc = "poll") ~> (pc # "poll")

\* The loop ran out: five polls, five sleeps, the fill is attempted anyway.
C13_Witness ==
    /\ PollPage
    /\ pc = "fill-swapp"
    /\ ~loc.found
    /\ loc.polls = 5
    /\ loc.slept = 15
-----------------------------------------------------------------------------
(* The fill transaction request. *)

FillSubmitted == page \in FillPages /\ loc.submitCalls # <<>>

\* C14 (as claimed): on every fill page the submitted fill request has the
\* SWAPP note as its one input note with note args [0, 0, 0, FILL_AMOUNT],
\* the P2ID note and the leftover SWAPP note as expected future notes, both
\* their recipients as expected output recipients, and is submitted by a
\* single submitNewTransaction call.
C14_FillRequest ==
    FillSubmitted =>
        LET req == loc.fillTxReq
        IN  /\ req.inputNotes = <<[note |-> NoteIdOf(TheSwappNote),
                                   args |-> <<0, 0, 0, FILL_AMOUNT>>]>>
            /\ last.kind = "tx" /\ last.idx = loc.swappIdx
            /\ last.argFill = FILL_AMOUNT
            /\ Len(req.expectedFutureNotes) = 2
            /\ req.expectedFutureNotes[1].kind = "P2ID"
            /\ req.expectedFutureNotes[2].kind = "PSWAP"
            /\ req.expectedOutputRecipients =
                  <<RecipientOf(req.expectedFutureNotes[1]),
                    RecipientOf(req.expectedFutureNotes[2])>>
            /\ loc.submitCalls = <<"submitNewTransaction">>
-----------------------------------------------------------------------------
(* The identifier fields of TestState. *)

AfterFaucets == {"create-wallets", "mint-tokens", "create-swapp", "fill-swapp",
                 "consume-p2id", "verify", "done"}
AfterWallets == AfterFaucets \ {"create-wallets"}
AfterFill == {"consume-p2id", "verify", "done"}

\* C15 (as claimed): on every fill page, once the faucets are created
\* goldFaucetId and silverFaucetId hold their ids, once the wallets are
\* created makerId and takerId hold theirs, once the PSWAP note is built
\* swappNoteId holds its id, after the partial fill p2idNoteId and
\* leftoverNoteId hold the ids of the two output notes, and so at "done" all
\* seven identifier fields are non-null.
C15_IdentifierFields ==
    page \in FillPages =>
        /\ state.phase \in AfterFaucets =>
              /\ state.ids["goldFaucetId"] = loc.goldId
              /\ state.ids["silverFaucetId"] = loc.silverId
        /\ state.phase \in AfterWallets =>
              /\ state.ids["makerId"] = AccountIdOf["maker"]
              /\ state.ids["takerId"] = AccountIdOf["taker"]
        /\ (state.phase \in AfterFill \/ loc.swappIdx # 0) =>
              state.ids["swappNoteId"] = NoteIdOf(TheSwappNote)
        /\ state.phase \in AfterFill =>
              /\ state.ids["p2idNoteId"] # Null
              /\ state.ids["leftoverNoteId"] # Null
        /\ state.phase = "done" =>
              \A k \in IdKeys : state.ids[k] # Null
-----------------------------------------------------------------------------
(* The state reset at the start of a run. *)

RunJustStarted == page \in FillPages /\ pc = "init"

\* C16: when runTest has started and none of its awaited steps has run yet,
\* the phase is "init", every identifier field is null and the log holds
\* nothing but the banner this run logged after the reset to an empty list;
\* no log line and no identifier of an earlier run is left.  During the run
\* an account identifier in the state is one of this run's.
C16_RunStartResets ==
    /\ RunJustStarted =>
          /\ state.phase = "init"
          /\ state.logs = <<"PSWAP PARTIAL FILL">>
          /\ \A k \in IdKeys \cup StrayKeys : state.ids[k] = Null
          /\ ResetState.logs = <<>>
    /\ (page \in FillPages /\ run.n > 0) =>
          /\ Head(state.logs) = "PSWAP PARTIAL FILL"
          /\ \A i \in 2..Len(state.logs) : state.logs[i] # "PSWAP PARTIAL FILL"
          /\ \A k \in {"goldFaucetId", "goldFaucetIdHex"} :
                state.ids[k] \in {Null, loc.goldId}
          /\ \A k \in {"silverFaucetId", "silverFaucetIdHex"} :
                state.ids[k] \in {Null, loc.silverId}

\* A second run has started: whatever the first run left is gone.
C16_Witness ==
    /\ RunJustStarted
    /\ run.n = 2
    /\ state.logs = <<"PSWAP PARTIAL FILL">>
-----------------------------------------------------------------------------
(* Phases at the start and at the end of a run. *)

RunStarted == run.n > 0
RunEnded == run.n > 0 /\ pc = "idle"

\* C17 (as claimed): on every page, a run that has started has moved the
\* phase away from "idle", and a run that has ended has left the phase at
\* "done" or "error", never at "idle" or at an intermediate stage.
C17_RunEndsDoneOrError ==
    /\ RunStarted => state.phase # "idle"
    /\ RunEnded => state.phase \in {"done", "error"}
-----------------------------------------------------------------------------
(* One run at a time. *)

RunInFlight == page \in FillPages /\ pc # "idle"

ButtonDisabledInFlight == RunInFlight => isRunning

StartsOnlyWhenNoneInFlight ==
    (page \in FillPages /\ run'.n # run.n) =>
        /\ pc = "idle"
        /\ state.phase \in {"idle", "done", "error"}
        /\ pc' = "init"

EndsOnlyAtDoneOrError ==
    (RunInFlight /\ pc' = "idle") => state'.phase \in {"done", "error"}

\* C18: while a run of runTest is in flight the phase is none of idle, done,
\* error, so the Run button is disabled; a run starts only when no run is in
\* flight (at most one at any time), and a started run leaves the flow only
\* by reaching "done" or "error": nothing aborts it.
C18_SingleRunInFlight ==
    /\ []ButtonDisabledInFlight
    /\ [][StartsOnlyWhenNoneInFlight]_vars
    /\ [][EndsOnlyAtDoneOrError]_vars

\* A second run is in flight, started after the first one had ended.
C18_Witness ==
    /\ RunInFlight
    /\ run.n = 2
    /\ pc = "fill-swapp"
    /\ isRunning
-----------------------------------------------------------------------------
(* The external-wallet signing test. *)

SigningTestDone ==
    /\ page = "signing"
    /\ run.flow = "runSigningTest"
    /\ pc = "idle"
    /\ state.phase = "done"

LastLines(n) == SubSeq(state.logs, Len(state.logs) - n + 1, Len(state.logs))

\* C19 (as claimed): the signing test ends at "done" with "All tests passed"
\* only if both signBytes calls of kind "word" succeeded, the two signatures
\* were the same bytes and the decrypted text equalled the plaintext.
C19_DoneOnlyIfChecksPassed ==
    SigningTestDone =>
        /\ ~run.failed
        /\ Len(state.logs) >= 3
        /\ LastLines(3) = <<"Signatures match: YES", "Round-trip success: YES",
                            "=== All tests passed! ===">>
-----------------------------------------------------------------------------
(* The swap count. *)

SwapCountOf(note) == Slot(note.inputs, SWAPP_COUNT_INPUT)

PswapNotesBefore(i) == {j \in 1..(i - 1) : notes[j].note.kind = "PSWAP"}

\* C20: the leftover PSWAP note of a partial fill has the consumed note's
\* swap count plus 1 in slot 8, so a PSWAP note that descends from an offer
\* with swap count 0 through n partial fills has swap count n; for the first
\* fill that is 1, the value the page puts in its expected leftover note.
C20_SwapCountIncrements ==
    /\ (SwapDone /\ last.res.partial) =>
          /\ SwapCountOf(last.res.outputs[2]) = SwapCountOf(last.note) + 1
          /\ last.idx = 1 =>
                SwapCountOf(last.res.outputs[2])
                   = SwapCountOf(ExpectedLeftover("private", GoldId, SilverId,
                                                  AccountIdOf["maker"],
                                                  OfferedAmount(last.note) - last.res.a_out,
                                                  RequestedAmount(last.note) - last.res.b_in,
                                                  last.note.tag))
    /\ SwapCountOf(ExpectedLeftover("private", GoldId, SilverId, AccountIdOf["maker"],
                                    1, 1, AccountTag(NoId))) = 1
    /\ \A i \in 1..Len(notes) :
          notes[i].note.kind = "PSWAP" =>
             SwapCountOf(notes[i].note) = Cardinality(PswapNotesBefore(i))

\* The offer has been filled partially twice: the live note has count 2.
C20_Witness ==
    \E i \in LiveNotes :
        /\ notes[i].note.kind = "PSWAP"
        /\ SwapCountOf(notes[i].note) = 2
        /\ SwapDone /\ last.res.partial
-----------------------------------------------------------------------------
(* The order of the phases of a fill flow. *)

PhaseOrder ==
    <<"init", "create-faucets", "create-wallets", "mint-tokens", "create-swapp",
      "fill-swapp", "consume-p2id", "verify", "done">>

PhaseRank(phase) == CHOOSE k \in 1..Len(PhaseOrder) : PhaseOrder[k] = phase

TerminalPhases == {"done", "error"}

PhaseStepInOrder ==
    (page \in FillPages /\ state'.phase # state.phase) =>
        \/ /\ run'.n = run.n + 1
           /\ state.phase \in {"idle"} \cup TerminalPhases
           /\ state'.phase = "init"
        \/ /\ run'.n = run.n
           /\ state.phase \in Range(PhaseOrder) \ {"done"}
           /\ state'.phase = "error"
        \/ /\ run'.n = run.n
           /\ state.phase \in Range(PhaseOrder)
           /\ state'.phase \in Range(PhaseOrder)
           /\ PhaseRank(state'.phase) = PhaseRank(state.phase) + 1

TerminalPhaseFrozen ==
    (page \in FillPages /\ state.phase \in TerminalPhases /\ run'.n = run.n) =>
        /\ state' = state
        /\ pc' = "idle"
        /\ loc' = loc
        /\ UNCHANGED <<vault, notes, last>>

FillAfterSwappApplied ==
    page \in FillPages =>
        /\ state.phase \in TerminalPhases => pc = "idle"
        /\ (FillSubmitted \/ last.kind = "tx") =>
              /\ loc.swappIdx \in 1..Len(notes)
              /\ TheSwappNote.kind = "PSWAP"
              /\ last.kind = "tx" /\ last.idx = loc.swappIdx
              /\ state.phase \in {"fill-swapp", "consume-p2id", "verify", "done", "error"}

\* C21: in a fill flow the phase changes only one step forward along init,
\* create-faucets, create-wallets, mint-tokens, create-swapp, fill-swapp,
\* consume-p2id, verify, done, or to "error" from a phase before "done", or
\* to "init" when a new run starts; "done" is entered from "verify" only; the
\* fill transaction is submitted only when the PSWAP note's creation
\* transaction has been applied; and at "done" or "error" the flow has
\* stopped: nothing of the state or the chain's accounts and notes changes
\* until the next run starts.
C21_PhaseOrder ==
    /\ []FillAfterSwappApplied
    /\ [][PhaseStepInOrder]_vars
    /\ [][TerminalPhaseFrozen]_vars

\* A second run went all the way to "done".
C21_Witness ==
    /\ page \in FillPages
    /\ run.n = 2
    /\ state.phase = "done"
    /\ last.kind = "tx"
-----------------------------------------------------------------------------
(* What a fill changes in the note inputs. *)

\* `after` is `before` with slot 0 reduced by fill and slot 8 increased by 1.
OnlyAmountAndCountChanged(before, after, fill) ==
    /\ Len(after) = Len(before)
    /\ \A k \in 1..Len(before) :
          after[k] = IF k = REQUESTED_ASSET_WORD_INPUT + 1 THEN before[k] - fill
                     ELSE IF k = SWAPP_COUNT_INPUT + 1 THEN before[k] + 1
                     ELSE before[k]

\* C22: the expected leftover note's inputs are the PSWAP note's inputs with
\* slot 0 reduced by the fill amount and slot 8 increased by 1, every other
\* slot (zeros, requested faucet, swap tag, P2ID tag, expiration block,
\* creator id, note type) being equal; the leftover note the script creates
\* differs from the consumed note in the same two slots only, and so has the
\* inputs the page expected.
C22_LeftoverInputsFrame ==
    /\ (SwappBuilt /\ loc.expected # <<>>) =>
          OnlyAmountAndCountChanged(TheSwappNote.inputs, loc.expected[2].inputs,
                                    FILL_AMOUNT)
    /\ (FillSucceeded /\ last.res.partial) =>
          /\ OnlyAmountAndCountChanged(last.note.inputs, last.res.outputs[2].inputs,
                                       last.res.b_in)
          /\ loc.expected # <<>> =>
                last.res.outputs[2].inputs = loc.expected[2].inputs

\* The public page's fill went through with its expected notes.
C22_Witness ==
    /\ page = "public"
    /\ FillSucceeded /\ last.res.partial
    /\ loc.expected # <<>>
    /\ state.phase = "verify"
-----------------------------------------------------------------------------
(* The frame of log and setPhase, and the order of their updates. *)

MaxPending == 2     \* updates queued between two renders

PendingUpdates ==
    {LogUpdate(m) : m \in {"Client initialized", "ERROR"}}
        \cup {PhaseUpdate(ph) : ph \in {"verify", "error"}}
PendingQueues == UNION {[1..n -> PendingUpdates] : n \in 0..MaxPending}

\* What the calls of a queue ask for: the messages in call order, and the
\* phase of the last setPhase call.
MessagesOf(queue) ==
    LET logged == SelectSeq(queue, LAMBDA u : u.fn = "log")
    IN  [k \in 1..Len(logged) |-> logged[k].arg]
PhaseAsked(phase, queue) ==
    LET asked == SelectSeq(queue, LAMBDA u : u.fn = "setPhase")
    IN  IF asked = <<>> THEN phase ELSE asked[Len(asked)].arg

\* From any state of a fill page, a queue of log and setPhase calls leaves
\* the log list extended by exactly the logged messages in call order, the
\* phase of the last setPhase call and everything else as it was, wherever a
\* render splits the queue.
UpdatesKeepOrderAndFrame ==
    page \in FillPages =>
        \A queue \in PendingQueues :
            LET after == ApplyUpdates(state, queue)
            IN  /\ after.logs = state.logs \o MessagesOf(queue)
                /\ after.phase = PhaseAsked(state.phase, queue)
                /\ after.ids = state.ids
                /\ after.internalTestPhase = state.internalTestPhase
                /\ DOMAIN after = DOMAIN state
                /\ \A j \in 0..Len(queue) :
                      ApplyUpdates(ApplyUpdates(state, SubSeq(queue, 1, j)),
                                   SubSeq(queue, j + 1, Len(queue))) = after

\* A single log call and a single setPhase call.
LogFrame ==
    page \in FillPages =>
        /\ \A u \in PendingUpdates :
              u.fn = "log" =>
                 Updater(u, state) = [state EXCEPT !.logs = state.logs \o <<u.arg>>]
        /\ \A u \in PendingUpdates :
              u.fn = "setPhase" => Updater(u, state) = [state EXCEPT !.phase = u.arg]

\* The catch block's setPhase("error") and its log calls all arrive: the
\* phase is "error" and the log ends with the ERROR banner and the error,
\* after the lines the run logged before, the run's banner first.
CaughtErrorLogged ==
    (page \in FillPages /\ state.phase = "error") =>
        /\ Len(state.logs) >= 3
        /\ state.logs[Len(state.logs) - 1] = "ERROR"
        /\ Head(state.logs) = "PSWAP PARTIAL FILL"

\* Within a run the log list is only extended at its end.
LogOnlyGrows ==
    (page \in FillPages /\ run'.n = run.n) =>
        /\ Len(state'.logs) >= Len(state.logs)
        /\ SubSeq(state'.logs, 1, Len(state.logs)) = state.logs

\* C23: on the fill pages log(message) appends exactly one line at the end
\* of the log list and leaves the phase and every identifier field unchanged,
\* setPhase changes only the phase, queued log and setPhase updates all take
\* effect in call order however they are batched, and between two run starts
\* the log list only grows.
C23_LogAndPhaseFrame ==
    /\ [](LogFrame /\ UpdatesKeepOrderAndFrame /\ CaughtErrorLogged)
    /\ [][LogOnlyGrows]_vars

\* A fill run that has logged and changed phase several times.
C23_Witness ==
    /\ page \in FillPages
    /\ run.n = 1
    /\ state.phase = "consume-p2id"
    /\ Len(state.logs) >= 5
    /\ state.ids["swappNoteId"] # Null
====
